---- MODULE Spec2Model ----
(***************************************************************************)
(* State-machine model of the resumable indexer of OSRS-wiki-RAG           *)
(* (src/chunk_articles.py): module start-up, the worker pool running        *)
(* process_article_batch, the coordinator loop over as_completed with its  *)
(* add_documents retry loop, update_progress / save_progress, the failure  *)
(* merge and manifest write, and the final save_progress.  A process can   *)
(* be killed at any step; the files on disk (checkpoint, failure manifest, *)
(* vector index) survive and the script can be launched again, with or     *)
(* without CHUNK_RESUME=1.                                                  *)
(***************************************************************************)
EXTENDS Integers, Sequences, FiniteSets, TLC

\* ---------------------------------------------------------------- bounds
MaxArticles == 3
MaxBatchSize == 2
MaxProgressEvery == 2
MaxRuns == 2
MaxBad == 1
\* CHUNK_MAX_WORKERS, kept small
MAX_WORKERS == 2
\* CHUNK_RETRY_ADD_DOCS (default)
RETRY_ADD_DOCS == 2
\* the scraper: titles of the wiki, titles per enumeration page (LIMIT, 500
\* in the source) and titles per content request (BATCH_SIZE of
\* wikiscraper.py, 50 in the source), kept small
MaxTitles == 3
LIMIT == 2
WIKI_BATCH_SIZE == 2
\* the cleaner: longest text given to remove_nested_templates
MaxLen == 10
\* longest text given to clean_with_regex
MaxWikiLen == 6
MaxFiles == 3
MaxCleanRuns == 2
MaxChunkSize == 10
MaxContentLen == 2
MaxTitleLen == 2
MaxPages == 2
MaxStoreRuns == 2
\* wikiscraper.py, lines 14 and 15
MAX_RETRIES == 5
BASE_WAIT == 2

VARIABLES
    \* inputs of the deployment, fixed over all runs
    n,                 \* number of articles process_articles discovers
    bad,               \* articles whose create_documents call raises
    BATCH_SIZE,
    PROGRESS_EVERY,
    \* process state of the current run
    run,               \* how many times the script has been launched
    RESUME_MODE,
    pc,                \* position of the coordinator (main thread)
    articles,          \* the article list after the resume slicing
    start_index,
    processed_count,
    total_chunks,
    failed_articles,
    failed_at_start,   \* the failed list the run started from (line 144)
    future,            \* batch index -> state and result of its future
    batch_num,         \* the coordinator's locals for the batch in hand
    batch_documents,
    batch_failed,
    attempt,
    backoff,           \* the sleep made before the attempt in hand (0: none)
    lock,              \* threading.Lock of line 155: "free" or "held"
    \* files
    ckpt,              \* PROGRESS_FILE
    manifest,          \* FAILED_MANIFEST: its lines (none: no such file)
    index,             \* the Chroma collection: set of chunk ids
    \* history
    chunks_at_start,   \* total_chunks as the run started (line 143)
    committed,         \* articles of the batches written to the index
    exhausted,         \* batches of this run whose write failed for good
    sinceCkpt          \* batches written since the last save_progress

vars == << n, bad, BATCH_SIZE, PROGRESS_EVERY, run, RESUME_MODE, pc, articles,
           start_index, processed_count, total_chunks, failed_articles,
           failed_at_start, future, batch_num, batch_documents, batch_failed,
           attempt, backoff, lock, ckpt, manifest, index, chunks_at_start,
           committed, exhausted, sinceCkpt >>

\* ------------------------------------------- the scraper and the cleaner
\* State of src/wikiscraper.py (one run of main) and of
\* src/article_cleanup.py (one call of remove_nested_templates).  The three
\* programs are separate processes; each specification below runs one of
\* them and leaves the state of the other two at rest.
VARIABLES
    \* the wiki (the Content Source)
    wiki_titles,       \* number of titles of the wiki: titles 1..wiki_titles
    \* scraper process
    spc,               \* position of main
    apcontinue,        \* params["apcontinue"]: titles served so far (0: unset)
    all_pages,         \* get_all_pages_list's list
    enum_last,         \* the last successful enumeration response
    pages_to_fetch,
    batch_start,       \* i of the loop of main
    retry,             \* attempt of get_wikitexts_batch_with_retry
    resp,              \* the response handled last
    wait,              \* the sleep made on handling it (half seconds)
    results,           \* what get_wikitexts_batch_with_retry returned
    saved,             \* titles with a file in OUTPUT_DIR
    \* history
    resps,             \* kinds of the responses to the batch in hand
    slept,             \* time slept since the last request (half seconds)
    gap,               \* time slept between the last two requests (-1: none)
    abandoned          \* batch starts given up (fatal error or retries spent)

svars == << wiki_titles, spc, apcontinue, all_pages, enum_last, pages_to_fetch,
            batch_start, retry, resp, wait, results, saved, resps, slept, gap,
            abandoned >>

VARIABLES
    cpc,               \* "in": text is the argument, "out": cleaned is the result
    text,              \* the argument of remove_nested_templates
    cleaned            \* its return value

cvars == << cpc, text, cleaned >>

\* process_all_files of src/article_cleanup.py: the files of the input and
\* output directories and the pool's jobs
VARIABLES
    fpc,               \* "idle": no run, "running": process_all_files runs
    input_files,       \* the .json files of input_dir
    output_files,      \* file -> "absent", "truncated" or "complete" in output_dir
    job,               \* file -> what the run in hand did with it
    cleanruns          \* how many times process_all_files was started

fvars == << fpc, input_files, output_files, job, cleanruns >>

\* configuration and process_articles of the two indexer scripts
VARIABLES
    kpc,               \* position: "env", "config", "file", "chunked"
    CHUNK_SIZE,
    CHUNK_OVERLAP,
    variant,           \* the script: "chunk_articles" or "chunking_articles"
    title,             \* 'title' of the cleaned-article file
    content,           \* 'content' of the cleaned-article file
    raw_text,
    documents          \* the chunks made of the article

kvars == << kpc, CHUNK_SIZE, CHUNK_OVERLAP, variant, title, content, raw_text,
            documents >>

\* the raw-article store of src/wikiscraper.py, with titles as texts
VARIABLES
    tpc,               \* position of main: "start", "fetch", "ended"
    site_titles,       \* the titles get_all_pages_list returns, in order
    files,             \* SAVE_DIR: records [name, title], one per name
    fetch_list,        \* pages_to_fetch, what is left of it
    ever_saved,        \* history: titles save_article was called for
    skipped,           \* history: titles the run in hand left out of the list
    storeruns          \* how many times main was started

tvars == << tpc, site_titles, files, fetch_list, ever_saved, skipped,
            storeruns >>

\* ------------------------------------------------------------- helpers
\* PROGRESS_FILE on disk: missing, opened for writing (truncated, nothing
\* dumped yet), or holding a complete record
Absent == [file |-> "absent", processed_count |-> 0, total_chunks |-> 0,
           failed_articles |-> << >>]
Truncated == [file |-> "truncated", processed_count |-> 0, total_chunks |-> 0,
              failed_articles |-> << >>]

Min(a, b) == IF a < b THEN a ELSE b

\* the sorted list process_articles returns: articles 1..k in file order
Discovered(k) == [i \in 1..k |-> i]

\* number of chunks text_splitter makes of article a (at least one: the
\* raw text always holds the "Title: ..." line)
ChunksOf(a) == IF a % 2 = 0 THEN 2 ELSE 1

\* the documents create_documents returns for article a
CreateDocuments(a) == [j \in 1..ChunksOf(a) |-> << a, j >>]

\* articles[i:i + BATCH_SIZE] for i in range(0, len(articles), BATCH_SIZE)
NumBatches(arts, bs) == (Len(arts) + bs - 1) \div bs
ArticleBatch(arts, bs, i) == SubSeq(arts, i * bs + 1, Min((i + 1) * bs, Len(arts)))

Range(s) == { s[i] : i \in 1..Len(s) }

Occ(s, x) == Cardinality({ i \in 1..Len(s) : s[i] = x })

ZeroProgress == [processed_count |-> 0, total_chunks |-> 0, failed_articles |-> << >>]

\* what save_progress dumps
ProgressRecord(p, t, f) ==
    [file |-> "complete", processed_count |-> p, total_chunks |-> t,
     failed_articles |-> f]

\* load_progress: a missing file gives the zero record
load_progress ==
    IF ckpt.file = "absent" THEN ZeroProgress
    ELSE [processed_count |-> ckpt.processed_count,
          total_chunks |-> ckpt.total_chunks,
          failed_articles |-> ckpt.failed_articles]

\* process_article_batch: the loop over the batch with its per-article try
RECURSIVE ProcessFrom(_, _, _, _)
ProcessFrom(batch, i, docs, failed) ==
    IF i > Len(batch) THEN [docs |-> docs, failed |-> failed]
    ELSE IF batch[i] \in bad
         THEN ProcessFrom(batch, i + 1, docs, Append(failed, batch[i]))
         ELSE ProcessFrom(batch, i + 1, docs \o CreateDocuments(batch[i]), failed)

\* a variant with the try around the whole loop: the first raise ends the batch
RECURSIVE AbortingFrom(_, _, _)
AbortingFrom(batch, i, docs) ==
    IF i > Len(batch) THEN [docs |-> docs, failed |-> << >>]
    ELSE IF batch[i] \in bad
         THEN [docs |-> docs, failed |-> << batch[i] >>]
         ELSE AbortingFrom(batch, i + 1, docs \o CreateDocuments(batch[i]))

process_article_batch_try_outside(batch) == AbortingFrom(batch, 1, << >>)

process_article_batch(batch) == ProcessFrom(batch, 1, << >>, << >>)

\* the resume slicing of lines 146-152
ResumeSlice(all, k) ==
    IF k > 0 /\ k < Len(all) THEN SubSeq(all, k + 1, Len(all)) ELSE all

Batches == 0 .. (NumBatches(articles, BATCH_SIZE) - 1)

Running == { "loop", "add", "update", "save", "merge", "final_save" }

NoFutures == [b \in {} |-> [st |-> "queued", docs |-> << >>, failed |-> << >>]]

\* no response handled yet (retry_after -1: the response has no such header)
NoResponse == [kind |-> "none", retry_after |-> -1]

\* the scraper is not running
ScraperAtRest ==
    /\ wiki_titles = 0
    /\ spc = "off"
    /\ apcontinue = 0
    /\ all_pages = << >>
    /\ enum_last = "none"
    /\ pages_to_fetch = << >>
    /\ batch_start = 0
    /\ retry = 0
    /\ resp = NoResponse
    /\ wait = 0
    /\ results = << >>
    /\ saved = {}
    /\ resps = << >>
    /\ slept = 0
    /\ gap = -1
    /\ abandoned = {}

\* the raw-article store is not in use
StoreAtRest ==
    /\ tpc = "off"
    /\ site_titles = << >>
    /\ files = {}
    /\ fetch_list = << >>
    /\ ever_saved = {}
    /\ skipped = {}
    /\ storeruns = 0

\* process_all_files is not running and the directories are empty
FilesAtRest ==
    /\ fpc = "off"
    /\ input_files = {}
    /\ output_files = << >>
    /\ job = << >>
    /\ cleanruns = 0

\* no configuration is loaded and no article is read
ChunkerAtRest ==
    /\ kpc = "off"
    /\ CHUNK_SIZE = 0
    /\ CHUNK_OVERLAP = 0
    /\ variant = "none"
    /\ title = << >>
    /\ content = << >>
    /\ raw_text = << >>
    /\ documents = << >>

\* the cleaner is not running
CleanerAtRest ==
    /\ cpc = "off"
    /\ text = << >>
    /\ cleaned = << >>

\* ---------------------------------------------------------------- Init
Init ==
    /\ StoreAtRest
    /\ n \in 0..MaxArticles
    /\ bad \in { B \in SUBSET (1..n) : Cardinality(B) <= MaxBad }
    /\ BATCH_SIZE \in 1..MaxBatchSize
    /\ PROGRESS_EVERY \in 1..MaxProgressEvery
    /\ run = 0
    /\ RESUME_MODE = FALSE
    /\ pc = "idle"
    /\ articles = << >>
    /\ start_index = 0
    /\ processed_count = 0
    /\ total_chunks = 0
    /\ failed_articles = << >>
    /\ failed_at_start = << >>
    /\ future = NoFutures
    /\ batch_num = 0
    /\ batch_documents = << >>
    /\ batch_failed = << >>
    /\ attempt = 0
    /\ backoff = 0
    /\ chunks_at_start = 0
    /\ lock = "free"
    /\ ckpt = Absent
    /\ manifest = << >>
    /\ index = {}
    /\ committed = {}
    /\ exhausted = {}
    /\ sinceCkpt = 0
    /\ ScraperAtRest
    /\ CleanerAtRest
    /\ FilesAtRest
    /\ ChunkerAtRest

\* the process memory is gone (the script is not running)
MemoryCleared ==
    /\ articles' = << >>
    /\ start_index' = 0
    /\ processed_count' = 0
    /\ total_chunks' = 0
    /\ failed_articles' = << >>
    /\ failed_at_start' = << >>
    /\ future' = NoFutures
    /\ batch_num' = 0
    /\ batch_documents' = << >>
    /\ batch_failed' = << >>
    /\ attempt' = 0
    /\ backoff' = 0
    /\ chunks_at_start' = 0
    /\ lock' = "free"
    /\ exhausted' = {}
    /\ sinceCkpt' = 0

\* ------------------------------------------------------------- actions
\* a variant that reads the checkpoint whatever the mode
InitialProgressAlwaysLoaded(resume) == load_progress

\* Lines 141-144: the progress record a run starts from
InitialProgress(resume) == IF resume THEN load_progress ELSE ZeroProgress

\* Module level, lines 58-201: configuration, index reset, discovery,
\* load of the checkpoint, resume slicing, batching and submission.
Startup(resume) ==
    /\ run' = run + 1
    /\ RESUME_MODE' = resume
    /\ index' = IF resume THEN index ELSE {}
    /\ committed' = IF resume THEN committed ELSE {}
    /\ UNCHANGED << svars, cvars, fvars, kvars, tvars >>
    /\ UNCHANGED << n, bad, BATCH_SIZE, PROGRESS_EVERY, ckpt, manifest >>
    /\ IF resume /\ ckpt.file = "truncated"
       THEN \* json.load raises JSONDecodeError, which load_progress lets through
            /\ pc' = "aborted"
            /\ MemoryCleared
       ELSE LET progress == InitialProgress(resume)
                arts == ResumeSlice(Discovered(n), progress.processed_count)
            IN  /\ start_index' = progress.processed_count
                /\ total_chunks' = progress.total_chunks
                /\ failed_articles' = progress.failed_articles
                /\ failed_at_start' = progress.failed_articles
                /\ articles' = arts
                /\ processed_count' = progress.processed_count
                /\ future' = [b \in 0 .. (NumBatches(arts, BATCH_SIZE) - 1) |->
                                 [st |-> "queued", docs |-> << >>, failed |-> << >>]]
                /\ batch_num' = 0
                /\ batch_documents' = << >>
                /\ batch_failed' = << >>
                /\ attempt' = 0
                /\ backoff' = 0
                /\ chunks_at_start' = progress.total_chunks
                /\ lock' = "free"
                /\ exhausted' = {}
                /\ sinceCkpt' = 0
                /\ pc' = "loop"

\* The script is launched for the first time, on empty storage.
Start(resume) ==
    /\ pc = "idle"
    /\ Startup(resume)

\* The script is launched again after a run that ended or was interrupted.
Relaunch(resume) ==
    /\ pc \in { "done", "crashed", "aborted" }
    /\ run < MaxRuns
    /\ Startup(resume)

\* a variant whose worker counts its own batch into processed_count
WorkerRunUpdating(b) ==
    /\ pc \in Running
    /\ b \in Batches
    /\ future[b].st = "queued"
    /\ Cardinality({ c \in Batches : c < b /\ future[c].st = "queued" }) < MAX_WORKERS
    /\ LET r == process_article_batch(ArticleBatch(articles, BATCH_SIZE, b))
       IN  future' = [future EXCEPT ![b] = [st |-> "finished", docs |-> r.docs,
                                            failed |-> r.failed]]
    /\ processed_count' = processed_count
                            + Len(ArticleBatch(articles, BATCH_SIZE, b))
    /\ UNCHANGED << lock, backoff, chunks_at_start, svars, cvars, fvars, kvars, tvars >>
    /\ UNCHANGED << n, bad, BATCH_SIZE, PROGRESS_EVERY, run, RESUME_MODE, pc,
                    articles, start_index, total_chunks,
                    failed_articles, failed_at_start, batch_num, batch_documents,
                    batch_failed, attempt, ckpt, manifest, index, committed,
                    exhausted, sinceCkpt >>

\* A pool thread runs process_article_batch on a submitted batch and the
\* future holds its result.  The executor's queue is FIFO and at most
\* MAX_WORKERS threads run, so a batch can be the next to finish only when
\* fewer than MAX_WORKERS batches submitted before it are still unfinished.
WorkerRun(b) ==
    /\ pc \in Running
    /\ b \in Batches
    /\ future[b].st = "queued"
    /\ Cardinality({ c \in Batches : c < b /\ future[c].st = "queued" }) < MAX_WORKERS
    /\ LET r == process_article_batch(ArticleBatch(articles, BATCH_SIZE, b))
       IN  future' = [future EXCEPT ![b] = [st |-> "finished", docs |-> r.docs,
                                            failed |-> r.failed]]
    /\ UNCHANGED << lock, backoff, chunks_at_start, svars, cvars, fvars, kvars, tvars >>
    /\ UNCHANGED << n, bad, BATCH_SIZE, PROGRESS_EVERY, run, RESUME_MODE, pc,
                    articles, start_index, processed_count, total_chunks,
                    failed_articles, failed_at_start, batch_num, batch_documents,
                    batch_failed, attempt, ckpt, manifest, index, committed,
                    exhausted, sinceCkpt >>

\* Lines 204-209: as_completed yields a finished future; its result is unpacked.
Consume(b) ==
    /\ pc = "loop"
    /\ b \in Batches
    /\ future[b].st = "finished"
    /\ future' = [future EXCEPT ![b].st = "consumed"]
    /\ batch_num' = b
    /\ batch_documents' = future[b].docs
    /\ batch_failed' = future[b].failed
    /\ IF future[b].docs # << >>
       THEN pc' = "add" /\ attempt' = 1
       ELSE pc' = "merge" /\ attempt' = 0
    /\ backoff' = 0
    /\ UNCHANGED << lock, chunks_at_start, svars, cvars, fvars, kvars, tvars >>
    /\ UNCHANGED << n, bad, BATCH_SIZE, PROGRESS_EVERY, run, RESUME_MODE,
                    articles, start_index, processed_count, total_chunks,
                    failed_articles, failed_at_start, ckpt, manifest, index,
                    committed, exhausted, sinceCkpt >>

\* Lines 211-212: vector_store.add_documents succeeds; break.
AddDocumentsOk ==
    /\ pc = "add"
    /\ index' = index \cup { << run, batch_documents[i][1], batch_documents[i][2] >> :
                               i \in 1..Len(batch_documents) }
    /\ committed' = committed \cup Range(ArticleBatch(articles, BATCH_SIZE, batch_num))
    /\ sinceCkpt' = sinceCkpt + 1
    /\ pc' = "update"
    /\ UNCHANGED << lock, backoff, chunks_at_start, svars, cvars, fvars, kvars, tvars >>
    /\ UNCHANGED << n, bad, BATCH_SIZE, PROGRESS_EVERY, run, RESUME_MODE,
                    articles, start_index, processed_count, total_chunks,
                    failed_articles, failed_at_start, future, batch_num,
                    batch_documents, batch_failed, attempt, ckpt, manifest,
                    exhausted >>

\* a variant that waits one second before every retry
BackoffConstant(a) == 1

\* Line 216: backoff = 2 ** (attempt - 1), in seconds
Backoff(a) == 2 ^ (a - 1)

\* a variant without the batch's except clause: the re-raised exception
\* leaves the loop and ends the script
AddDocumentsFailUncaught ==
    /\ pc = "add"
    /\ IF attempt > RETRY_ADD_DOCS
       THEN /\ pc' = "aborted"
            /\ batch_num' = 0
            /\ batch_documents' = << >>
            /\ batch_failed' = << >>
            /\ attempt' = 0
            /\ backoff' = 0
            /\ UNCHANGED << exhausted, manifest >>
       ELSE /\ attempt' = attempt + 1
            /\ backoff' = Backoff(attempt)
            /\ UNCHANGED << exhausted, manifest, pc, batch_num, batch_documents,
                            batch_failed >>
    /\ UNCHANGED << lock, chunks_at_start, svars, cvars, fvars, kvars, tvars >>
    /\ UNCHANGED << n, bad, BATCH_SIZE, PROGRESS_EVERY, run, RESUME_MODE,
                    articles, start_index, processed_count, total_chunks,
                    failed_articles, failed_at_start, future, ckpt, index,
                    committed, sinceCkpt >>

\* Lines 213-218 and 233-244: add_documents raises.  Below the ceiling the loop
\* sleeps 2 ** (attempt - 1) and tries again; above it the exception is
\* re-raised, caught by the batch's except clause, and the loop body goes on
\* with the manifest write.
AddDocumentsFail ==
    /\ pc = "add"
    /\ IF attempt > RETRY_ADD_DOCS
       THEN /\ exhausted' = exhausted \cup { batch_num }
            /\ manifest' = IF failed_articles # << >> THEN failed_articles ELSE manifest
            /\ pc' = "loop"
            /\ batch_num' = 0
            /\ batch_documents' = << >>
            /\ batch_failed' = << >>
            /\ attempt' = 0
            /\ backoff' = 0
       ELSE /\ attempt' = attempt + 1
            /\ backoff' = Backoff(attempt)
            /\ UNCHANGED << exhausted, manifest, pc, batch_num, batch_documents,
                            batch_failed >>
    /\ UNCHANGED << lock, chunks_at_start, svars, cvars, fvars, kvars, tvars >>
    /\ UNCHANGED << n, bad, BATCH_SIZE, PROGRESS_EVERY, run, RESUME_MODE,
                    articles, start_index, processed_count, total_chunks,
                    failed_articles, failed_at_start, future, ckpt, index,
                    committed, sinceCkpt >>

\* a variant that counts the batch's failure records as chunks
ChunksAddedWithFailed == Len(batch_documents) + Len(batch_failed)

\* Line 220: the chunks_added argument, len(batch_documents)
ChunksAdded == Len(batch_documents)

\* update_progress, lines 182-189, up to save_progress opening the file:
\* open(PROGRESS_FILE, 'w') truncates it before anything is dumped.  The
\* function's body runs in "with lock:"; the lock is still held while
\* save_progress runs and is free again when no save is due.
UpdateProgress ==
    /\ pc = "update"
    /\ processed_count' = processed_count
                            + Len(ArticleBatch(articles, BATCH_SIZE, batch_num))
    /\ total_chunks' = total_chunks + ChunksAdded
    /\ IF (batch_num + 1) % PROGRESS_EVERY = 0
       THEN ckpt' = Truncated /\ pc' = "save" /\ lock' = "held"
       ELSE ckpt' = ckpt /\ pc' = "merge" /\ lock' = "free"
    /\ UNCHANGED << backoff, chunks_at_start, svars, cvars, fvars, kvars, tvars >>
    /\ UNCHANGED << n, bad, BATCH_SIZE, PROGRESS_EVERY, run, RESUME_MODE,
                    articles, start_index, failed_articles, failed_at_start,
                    future, batch_num, batch_documents, batch_failed, attempt,
                    manifest, index, committed, exhausted, sinceCkpt >>

\* save_progress, lines 30-37: json.dump and the close of the file put the
\* whole record on disk.  (persist_vector_store, called after it, finds no
\* persist method on the store and changes nothing.)  Called from
\* update_progress it ends the "with lock:" block; the call of line 259 is
\* made outside any such block.
SaveProgressDump ==
    /\ pc \in { "save", "final_save" }
    /\ ckpt' = ProgressRecord(processed_count, total_chunks, failed_articles)
    /\ sinceCkpt' = 0
    /\ lock' = "free"
    /\ pc' = IF pc = "save" THEN "merge" ELSE "done"
    /\ UNCHANGED << backoff, chunks_at_start, svars, cvars, fvars, kvars, tvars >>
    /\ UNCHANGED << n, bad, BATCH_SIZE, PROGRESS_EVERY, run, RESUME_MODE,
                    articles, start_index, processed_count, total_chunks,
                    failed_articles, failed_at_start, future, batch_num,
                    batch_documents, batch_failed, attempt, manifest, index,
                    committed, exhausted >>

\* Lines 225-244: the batch's failures join the failed list, and the manifest
\* is rewritten when the list is not empty.
MergeFailed ==
    /\ pc = "merge"
    /\ LET merged == failed_articles \o batch_failed
       IN  /\ failed_articles' = merged
           /\ manifest' = IF merged # << >> THEN merged ELSE manifest
    /\ pc' = "loop"
    /\ batch_num' = 0
    /\ batch_documents' = << >>
    /\ batch_failed' = << >>
    /\ attempt' = 0
    /\ backoff' = 0
    /\ UNCHANGED << lock, chunks_at_start, svars, cvars, fvars, kvars, tvars >>
    /\ UNCHANGED << n, bad, BATCH_SIZE, PROGRESS_EVERY, run, RESUME_MODE,
                    articles, start_index, processed_count, total_chunks,
                    failed_at_start, future, ckpt, index, committed, exhausted,
                    sinceCkpt >>

\* Lines 247-259: every future was consumed; the final save_progress opens
\* (and so truncates) the checkpoint file.
FinalSaveOpen ==
    /\ pc = "loop"
    /\ \A b \in Batches : future[b].st = "consumed"
    /\ ckpt' = Truncated
    /\ pc' = "final_save"
    /\ UNCHANGED << lock, backoff, chunks_at_start, svars, cvars, fvars, kvars, tvars >>
    /\ UNCHANGED << n, bad, BATCH_SIZE, PROGRESS_EVERY, run, RESUME_MODE,
                    articles, start_index, processed_count, total_chunks,
                    failed_articles, failed_at_start, future, batch_num,
                    batch_documents, batch_failed, attempt, manifest, index,
                    committed, exhausted, sinceCkpt >>

\* The process is interrupted or killed (no handler is installed: a
\* KeyboardInterrupt is no Exception and leaves the script); files stay.
Crash ==
    /\ pc \in Running
    /\ pc' = "crashed"
    /\ MemoryCleared
    /\ UNCHANGED << svars, cvars, fvars, kvars, tvars >>
    /\ UNCHANGED << n, bad, BATCH_SIZE, PROGRESS_EVERY, run, RESUME_MODE, ckpt,
                    manifest, index, committed >>

\* the steps of one run of the script
RunStep ==
    \/ \E b \in Batches : WorkerRun(b)
    \/ \E b \in Batches : Consume(b)
    \/ AddDocumentsOk
    \/ AddDocumentsFail
    \/ UpdateProgress
    \/ SaveProgressDump
    \/ MergeFailed
    \/ FinalSaveOpen

NextRun ==
    \/ \E resume \in BOOLEAN : Start(resume)
    \/ RunStep

NextLive ==
    \/ \E resume \in BOOLEAN : Start(resume)
    \/ \E resume \in BOOLEAN : Relaunch(resume)
    \/ RunStep

Next ==
    \/ \E resume \in BOOLEAN : Start(resume)
    \/ \E resume \in BOOLEAN : Relaunch(resume)
    \/ RunStep
    \/ Crash

\* runs, interruptions at any step, and launches after them
Spec == Init /\ [][Next]_vars

\* runs that nothing interrupts, one after the other; the interpreter and
\* the pool keep running whatever can run
LiveSpec == Init /\ [][NextLive]_vars /\ WF_vars(NextLive)

\* a single run that nothing interrupts
RunSpec == Init /\ [][NextRun]_vars /\ WF_vars(NextRun)

\* ================================================================ scraper
\* src/wikiscraper.py.  Time is counted in half seconds, the unit of the
\* shortest sleep of the script.
Seconds(x) == 2 * x

\* the indexer is not running
IndexerAtRest ==
    /\ n = 0 /\ bad = {} /\ BATCH_SIZE = 1 /\ PROGRESS_EVERY = 1
    /\ run = 0 /\ RESUME_MODE = FALSE /\ pc = "idle"
    /\ articles = << >> /\ start_index = 0 /\ processed_count = 0
    /\ total_chunks = 0 /\ failed_articles = << >> /\ failed_at_start = << >>
    /\ future = NoFutures /\ batch_num = 0 /\ batch_documents = << >>
    /\ batch_failed = << >> /\ attempt = 0 /\ lock = "free" /\ ckpt = Absent
    /\ manifest = << >> /\ index = {} /\ committed = {} /\ exhausted = {}
    /\ sinceCkpt = 0 /\ backoff = 0 /\ chunks_at_start = 0

\* what the Content Source can answer to an enumeration request: a page of
\* titles (with a continue token while titles remain), an empty page that
\* still carries a continue token, a body with an "error" key, or nothing
\* readable (connection error, invalid JSON)
EnumKinds == { "ok", "empty_continue", "error", "exception" }

\* what it can answer to a content request: the pages, a status other than
\* 200, a 200 with an unparsable body, an API error of the retryable family
\* (maxlag, ratelimited, readonly), any other API error, or a
\* RequestException
ContentKinds == { "ok", "http_error", "bad_json", "retryable", "fatal", "exception" }

\* a variant in which every API error is retried
RetryKindsAndFatal == { "http_error", "bad_json", "retryable", "fatal", "exception" }

\* kinds after which the loop of get_wikitexts_batch_with_retry goes round
RetryKinds == { "http_error", "bad_json", "retryable", "exception" }

\* values of a Retry-After header, in seconds (-1: no such header)
RetryAfterValues == { -1, 0, 3 }

\* the titles the wiki serves after the first c, at most LIMIT of them
PageAfter(c) == [i \in 1 .. (Min(c + LIMIT, wiki_titles) - c) |-> c + i]

\* the script is started by main(); files of an earlier run may exist
ScraperInit ==
    /\ IndexerAtRest
    /\ StoreAtRest
    /\ CleanerAtRest
    /\ FilesAtRest
    /\ ChunkerAtRest
    /\ wiki_titles \in 0..MaxTitles
    /\ saved \in SUBSET (1..wiki_titles)
    /\ spc = "enum"
    /\ apcontinue = 0
    /\ all_pages = << >>
    /\ enum_last = "none"
    /\ pages_to_fetch = << >>
    /\ batch_start = 0
    /\ retry = 0
    /\ resp = NoResponse
    /\ wait = 0
    /\ results = << >>
    /\ resps = << >>
    /\ slept = 0
    /\ gap = -1
    /\ abandoned = {}

\* a variant that never looks for the continue token
NeverContinues(more) == FALSE

\* line 138: if "continue" in data
Continues(more) == more

\* a variant that moves the token one page on when a request fails
TokenSkipsPage(c) == Min(c + LIMIT, wiki_titles)

\* lines 125-128 and 143-145: a failed request leaves params["apcontinue"]
\* as it was
TokenAfterFailure(c) == c

\* the time slept between the request now made and the one before it
GapNow == IF resp = NoResponse THEN -1 ELSE slept

\* get_all_pages_list, lines 121-146: one round of the while loop, from the
\* request to the sleep or the break that ends the round.
EnumRequest(kind) ==
    /\ spc = "enum"
    /\ kind \in EnumKinds
    /\ gap' = GapNow
    /\ resp' = [kind |-> kind, retry_after |-> -1]
    /\ CASE kind = "error" ->
              \* lines 126-129: print, sleep 5, continue
              /\ wait' = Seconds(5)
              /\ slept' = Seconds(5)
              /\ apcontinue' = TokenAfterFailure(apcontinue)
              /\ UNCHANGED << spc, all_pages, enum_last >>
         [] kind = "exception" ->
              \* lines 143-145: print, sleep 2
              /\ wait' = Seconds(2)
              /\ slept' = Seconds(2)
              /\ apcontinue' = TokenAfterFailure(apcontinue)
              /\ UNCHANGED << spc, all_pages, enum_last >>
         [] kind = "empty_continue" ->
              \* lines 131-133: no pages, break (the token is not looked at)
              /\ wait' = 0
              /\ slept' = 0
              /\ spc' = "listed"
              /\ enum_last' = "empty_continue"
              /\ UNCHANGED << apcontinue, all_pages >>
         [] kind = "ok" ->
              LET pages == PageAfter(apcontinue)
                  more == apcontinue + LIMIT < wiki_titles
              IN  IF pages = << >>
                  THEN /\ wait' = 0
                       /\ slept' = 0
                       /\ spc' = "listed"
                       /\ enum_last' = "last"
                       /\ UNCHANGED << apcontinue, all_pages >>
                  ELSE /\ all_pages' = all_pages \o pages
                       /\ enum_last' = IF more THEN "continue" ELSE "last"
                       /\ IF Continues(more)
                          THEN \* lines 138-140: token kept, sleep 0.5
                               /\ apcontinue' = apcontinue + LIMIT
                               /\ wait' = 1
                               /\ slept' = 1
                               /\ spc' = "enum"
                          ELSE \* lines 141-142: break
                               /\ apcontinue' = apcontinue
                               /\ wait' = 0
                               /\ slept' = 0
                               /\ spc' = "listed"
    /\ UNCHANGED << wiki_titles, pages_to_fetch, batch_start, retry, results,
                    saved, resps, abandoned >>
    /\ UNCHANGED << vars, cvars, fvars, kvars, tvars >>

\* select s[i] for the i satisfying keep, in order
RECURSIVE Filter(_, _)
Filter(s, keep) ==
    IF s = << >> THEN << >>
    ELSE IF Head(s) \in keep THEN << Head(s) >> \o Filter(Tail(s), keep)
         ELSE Filter(Tail(s), keep)

\* main, lines 157-174: the titles without a file make pages_to_fetch; with
\* none the script ends, else the batch loop starts.
BuildFetchList ==
    /\ spc = "listed"
    /\ LET todo == Filter(all_pages, Range(all_pages) \ saved)
       IN  /\ pages_to_fetch' = todo
           /\ spc' = IF todo = << >> THEN "ended" ELSE "fetch"
    /\ batch_start' = 0
    /\ retry' = 0
    /\ resps' = << >>
    /\ UNCHANGED << wiki_titles, apcontinue, all_pages, enum_last, resp, wait,
                    results, saved, slept, gap, abandoned >>
    /\ UNCHANGED << vars, cvars, fvars, kvars, tvars >>

\* pages_to_fetch[i:i + BATCH_SIZE]
FetchBatch == SubSeq(pages_to_fetch, batch_start + 1,
                     Min(batch_start + WIKI_BATCH_SIZE, Len(pages_to_fetch)))

\* the sleep of get_wikitexts_batch_with_retry after a response of a retry
\* kind, in seconds: lines 56, 63, 71-76 and 98
RetryWait(kind, retry_after, att) ==
    CASE kind = "bad_json" -> BASE_WAIT
      [] kind = "retryable" /\ retry_after # -1 -> retry_after
      [] OTHER -> BASE_WAIT * (att + 1)

\* a variant of the loop without a ceiling: one more round after every
\* response of a retry kind
ContentRequestUnbounded(kind, retry_after) ==
    /\ spc = "fetch"
    /\ kind \in ContentKinds
    /\ retry_after \in RetryAfterValues
    /\ retry_after # -1 => kind \in { "http_error", "retryable" }
    /\ Len(resps) <= MAX_RETRIES
    /\ gap' = GapNow
    /\ resp' = [kind |-> kind, retry_after |-> retry_after]
    /\ resps' = Append(resps, kind)
    /\ IF kind \in RetryKinds
       THEN LET w == Seconds(RetryWait(kind, retry_after, retry))
            IN  /\ wait' = w
                /\ slept' = w
                /\ retry' = retry + 1
                /\ UNCHANGED << spc, results, abandoned >>
       ELSE /\ wait' = 0
            /\ slept' = 0
            /\ spc' = "save"
            /\ retry' = retry
            /\ results' = IF kind = "ok" THEN FetchBatch ELSE << >>
            /\ abandoned' = IF kind = "ok" THEN abandoned
                             ELSE abandoned \cup { batch_start }
    /\ UNCHANGED << wiki_titles, apcontinue, all_pages, enum_last,
                    pages_to_fetch, batch_start, saved >>
    /\ UNCHANGED << vars, cvars, fvars, kvars, tvars >>

\* get_wikitexts_batch_with_retry, lines 48-101: one round of the for loop,
\* from the request to the sleep that ends the round or to the return.  The
\* function returns the parsed pages on success, {} on an API error outside
\* the retryable family, and {} when the round was the last of MAX_RETRIES.
ContentRequest(kind, retry_after) ==
    /\ spc = "fetch"
    /\ kind \in ContentKinds
    /\ retry_after \in RetryAfterValues
    /\ retry_after # -1 => kind \in { "http_error", "retryable" }
    /\ gap' = GapNow
    /\ resp' = [kind |-> kind, retry_after |-> retry_after]
    /\ resps' = Append(resps, kind)
    /\ IF kind \in RetryKinds
       THEN LET w == Seconds(RetryWait(kind, retry_after, retry))
            IN  /\ wait' = w
                /\ slept' = w
                /\ IF retry + 1 < MAX_RETRIES
                   THEN /\ retry' = retry + 1
                        /\ UNCHANGED << spc, results, abandoned >>
                   ELSE \* lines 100-101: all retries failed
                        /\ retry' = retry
                        /\ spc' = "save"
                        /\ results' = << >>
                        /\ abandoned' = abandoned \cup { batch_start }
       ELSE /\ wait' = 0
            /\ slept' = 0
            /\ spc' = "save"
            /\ retry' = retry
            /\ results' = IF kind = "ok" THEN FetchBatch ELSE << >>
            /\ abandoned' = IF kind = "ok" THEN abandoned
                             ELSE abandoned \cup { batch_start }
    /\ UNCHANGED << wiki_titles, apcontinue, all_pages, enum_last,
                    pages_to_fetch, batch_start, saved >>
    /\ UNCHANGED << vars, cvars, fvars, kvars, tvars >>

\* main, lines 180-188: the returned pages are saved, the script sleeps half
\* a second and goes to the next batch, or ends after the last.
SaveBatch ==
    /\ spc = "save"
    /\ saved' = saved \cup Range(results)
    /\ results' = << >>
    /\ slept' = slept + 1
    /\ IF batch_start + WIKI_BATCH_SIZE < Len(pages_to_fetch)
       THEN /\ batch_start' = batch_start + WIKI_BATCH_SIZE
            /\ retry' = 0
            /\ resps' = << >>
            /\ spc' = "fetch"
       ELSE /\ spc' = "ended"
            /\ UNCHANGED << batch_start, retry, resps >>
    /\ UNCHANGED << wiki_titles, apcontinue, all_pages, enum_last,
                    pages_to_fetch, resp, wait, gap, abandoned >>
    /\ UNCHANGED << vars, cvars, fvars, kvars, tvars >>

ScraperNext ==
    \/ \E kind \in EnumKinds : EnumRequest(kind)
    \/ BuildFetchList
    \/ \E kind \in ContentKinds, retry_after \in RetryAfterValues :
          ContentRequest(kind, retry_after)
    \/ SaveBatch

\* one run of the scraper against a Content Source that answers as it
\* likes; the interpreter keeps running the script
ScraperSpec == ScraperInit /\ [][ScraperNext]_svars /\ WF_svars(ScraperNext)

\* ================================================================ cleaner
\* src/article_cleanup.py, remove_nested_templates.  A text is a sequence of
\* characters; "a" stands for every character that is no brace.
Alphabet == { "{", "}", "a" }

Texts == UNION { [1..k -> Alphabet] : k \in 0..MaxLen }

\* text[i:i+2] == '{{' and == '}}', for the 1-based position i
OpenAt(t, i) == i < Len(t) /\ t[i] = "{" /\ t[i + 1] = "{"
CloseAt(t, i) == i < Len(t) /\ t[i] = "}" /\ t[i + 1] = "}"

\* a variant of the inner loop that does not count nested openers
RECURSIVE ScanTemplateFlat(_, _, _)
ScanTemplateFlat(t, j, brace_count) ==
    IF j < Len(t) /\ brace_count > 0
    THEN IF CloseAt(t, j) THEN ScanTemplateFlat(t, j + 2, brace_count - 1)
         ELSE ScanTemplateFlat(t, j + 1, brace_count)
    ELSE [j |-> j, brace_count |-> brace_count]

\* lines 84-93: the inner while loop, "while j < len(text) - 1 and
\* brace_count > 0"; gives j and brace_count at its end
RECURSIVE ScanTemplate(_, _, _)
ScanTemplate(t, j, brace_count) ==
    IF j < Len(t) /\ brace_count > 0
    THEN IF OpenAt(t, j) THEN ScanTemplate(t, j + 2, brace_count + 1)
         ELSE IF CloseAt(t, j) THEN ScanTemplate(t, j + 2, brace_count - 1)
         ELSE ScanTemplate(t, j + 1, brace_count)
    ELSE [j |-> j, brace_count |-> brace_count]

\* lines 78-96: the outer while loop from position i with result so far
RECURSIVE RemoveFrom(_, _, _)
RemoveFrom(t, i, result) ==
    IF i > Len(t) THEN result
    ELSE IF OpenAt(t, i)
         THEN LET r == ScanTemplate(t, i + 2, 1)
              IN  RemoveFrom(t, IF r.brace_count = 0 THEN r.j ELSE i + 1, result)
         ELSE RemoveFrom(t, i + 1, Append(result, t[i]))

remove_nested_templates(t) == RemoveFrom(t, 1, << >>)

CleanerInit ==
    /\ IndexerAtRest
    /\ StoreAtRest
    /\ ScraperAtRest
    /\ FilesAtRest
    /\ ChunkerAtRest
    /\ cpc = "in"
    /\ text \in Texts
    /\ cleaned = << >>

\* the call of remove_nested_templates on text
RemoveNestedTemplates ==
    /\ cpc = "in"
    /\ cleaned' = remove_nested_templates(text)
    /\ cpc' = "out"
    /\ UNCHANGED text
    /\ UNCHANGED << vars, svars, fvars, kvars, tvars >>

CleanerNext == RemoveNestedTemplates

\* remove_nested_templates applied to every text of the bounded set
CleanerSpec == CleanerInit /\ [][CleanerNext]_cvars

\* ------------------------------------------------------ clean_with_regex
\* src/article_cleanup.py, lines 9-68, on texts of "=", space, tab, newline
\* and "a" (any other character).  On these texts the passes of lines 17-27,
\* 31-38 and 44-50 find nothing to replace: each of their patterns needs one
\* of the characters < [ ' | ! & {, which the texts do not hold and no pass
\* writes (the header pass of line 28 writes "#" and a space only).
WikiAlphabet == { "=", " ", "\t", "\n", "a" }

WikiTexts == UNION { [1..k -> WikiAlphabet] : k \in 0..MaxWikiLen }

\* \s, and what str.strip() removes
IsSpace(c) == c \in { " ", "\t", "\n" }

\* every character of t[from .. to - 1] is in the set
AllIn(t, from, to, set) == \A k \in from .. (to - 1) : t[k] \in set

NonNewline(t, from, to) == \A k \in from .. (to - 1) : t[k] # "\n"

\* ^ and $ under re.MULTILINE, at position i (1-based; Len(t) + 1 is the end)
LineStartAt(t, i) == i = 1 \/ t[i - 1] = "\n"
LineEndAt(t, i) == i = Len(t) + 1 \/ t[i] = "\n"

Spaces == { " ", "\t", "\n" }

MaxOf(S) == CHOOSE x \in S : \A y \in S : y <= x
MinOf(S) == CHOOSE x \in S : \A y \in S : x <= y

\* The header patterns of lines 28 and 41,
\*     ^=+\s*(.+?)\s*=+$     and     ^=+\s*(.+?)\s*=+\s*$
\* matched at position i.  a, b, c, d, e, f are the positions after the six
\* parts =+ \s* (.+?) \s* =+ \s*; "trailing" tells whether the pattern has
\* the last part.  Each HdrN says that the parts from the N-th on can match.
Hdr6(t, e, f, trailing) ==
    /\ (trailing \/ f = e)
    /\ AllIn(t, e, f, Spaces)
    /\ LineEndAt(t, f)
Hdr5(t, d, e, trailing) ==
    /\ AllIn(t, d, e, { "=" })
    /\ \E f \in e .. (Len(t) + 1) : Hdr6(t, e, f, trailing)
Hdr4(t, c, d, trailing) ==
    /\ AllIn(t, c, d, Spaces)
    /\ \E e \in (d + 1) .. (Len(t) + 1) : Hdr5(t, d, e, trailing)
Hdr3(t, b, c, trailing) ==
    /\ NonNewline(t, b, c)
    /\ \E d \in c .. (Len(t) + 1) : Hdr4(t, c, d, trailing)
Hdr2(t, a, b, trailing) ==
    /\ AllIn(t, a, b, Spaces)
    /\ \E c \in (b + 1) .. (Len(t) + 1) : Hdr3(t, b, c, trailing)
Hdr1(t, i, a, trailing) ==
    /\ AllIn(t, i, a, { "=" })
    /\ \E b \in a .. (Len(t) + 1) : Hdr2(t, a, b, trailing)

HeaderMatches(t, i, trailing) ==
    LineStartAt(t, i) /\ \E a \in (i + 1) .. (Len(t) + 1) : Hdr1(t, i, a, trailing)

\* the match the regex engine finds first: greedy parts take the longest
\* stretch that lets the rest match, the lazy group the shortest
HeaderMatch(t, i, trailing) ==
    LET n1 == Len(t) + 1
        a == MaxOf({ x \in (i + 1) .. n1 : Hdr1(t, i, x, trailing) })
        b == MaxOf({ x \in a .. n1 : Hdr2(t, a, x, trailing) })
        c == MinOf({ x \in (b + 1) .. n1 : Hdr3(t, b, x, trailing) })
        d == MaxOf({ x \in c .. n1 : Hdr4(t, c, x, trailing) })
        e == MaxOf({ x \in (d + 1) .. n1 : Hdr5(t, d, x, trailing) })
        f == MaxOf({ x \in e .. n1 : Hdr6(t, e, x, trailing) })
    IN  [group |-> SubSeq(t, b, c - 1), end |-> f]

\* re.sub of a header pattern from position i on: every match, found from
\* left to right, is replaced by prefix + group 1
RECURSIVE SubHeaders(_, _, _, _, _)
SubHeaders(t, i, out, trailing, prefix) ==
    IF i > Len(t) THEN out
    ELSE IF HeaderMatches(t, i, trailing)
         THEN LET m == HeaderMatch(t, i, trailing)
              IN  SubHeaders(t, m.end, out \o prefix \o m.group, trailing, prefix)
         ELSE SubHeaders(t, i + 1, Append(out, t[i]), trailing, prefix)

\* line 28: re.sub(r'^=+\s*(.+?)\s*=+$', r'## \1', text, flags=re.MULTILINE)
MarkHeaders(t) == SubHeaders(t, 1, << >>, FALSE, << "#", "#", " " >>)

\* line 41: re.sub(r'^=+\s*(.+?)\s*=+\s*$', r'\1', text, flags=re.MULTILINE)
UnwrapHeaders(t) == SubHeaders(t, 1, << >>, TRUE, << >>)

\* text.split('\n'): the lines, from position i on with the line begun in cur
RECURSIVE SplitFrom(_, _, _)
SplitFrom(t, i, cur) ==
    IF i > Len(t) THEN << cur >>
    ELSE IF t[i] = "\n" THEN << cur >> \o SplitFrom(t, i + 1, << >>)
    ELSE SplitFrom(t, i + 1, Append(cur, t[i]))

SplitLines(t) == SplitFrom(t, 1, << >>)

\* str.strip()
RECURSIVE Strip(_)
Strip(t) ==
    IF t = << >> THEN t
    ELSE IF IsSpace(Head(t)) THEN Strip(Tail(t))
    ELSE IF IsSpace(t[Len(t)]) THEN Strip(SubSeq(t, 1, Len(t) - 1))
    ELSE t

\* line 58: re.match(r'^\s*[{}|!=]+\s*$', line)
MarkupOnly(line) ==
    \E a \in 1 .. (Len(line) + 1), b \in 1 .. (Len(line) + 1) :
        /\ a < b
        /\ AllIn(line, 1, a, Spaces)
        /\ AllIn(line, a, b, { "{", "}", "|", "!", "=" })
        /\ AllIn(line, b, Len(line) + 1, Spaces)

\* lines 54-61: the loop over the lines
RECURSIVE CleanLines(_, _, _)
CleanLines(lines, i, cleaned_lines) ==
    IF i > Len(lines) THEN cleaned_lines
    ELSE LET line == Strip(lines[i])
         IN  IF line # << >> /\ ~MarkupOnly(line)
             THEN CleanLines(lines, i + 1, Append(cleaned_lines, line))
             ELSE IF cleaned_lines = << >>
                     \/ cleaned_lines[Len(cleaned_lines)] # << >>
                  THEN CleanLines(lines, i + 1, Append(cleaned_lines, << >>))
                  ELSE CleanLines(lines, i + 1, cleaned_lines)

\* '\n'.join(cleaned_lines)
RECURSIVE JoinLines(_)
JoinLines(lines) ==
    IF lines = << >> THEN << >>
    ELSE IF Len(lines) = 1 THEN lines[1]
    ELSE lines[1] \o << "\n" >> \o JoinLines(Tail(lines))

\* the end of the longest stretch of characters of the set that starts at i
RECURSIVE RunEnd(_, _, _)
RunEnd(t, i, set) ==
    IF i <= Len(t) /\ t[i] \in set THEN RunEnd(t, i + 1, set) ELSE i

\* line 65: re.sub(r'\n\s*\n\s*\n+', '\n\n', text).  The pattern matches at
\* a newline whose stretch of whitespace holds three newlines or more, and
\* the greedy parts carry the match to the last newline of the stretch.
RECURSIVE CollapseBlankFrom(_, _, _)
CollapseBlankFrom(t, i, out) ==
    IF i > Len(t) THEN out
    ELSE LET r == RunEnd(t, i, Spaces)
             nls == { k \in i .. (r - 1) : t[k] = "\n" }
         IN  IF t[i] = "\n" /\ Cardinality(nls) >= 3
             THEN CollapseBlankFrom(t, MaxOf(nls) + 1, out \o << "\n", "\n" >>)
             ELSE CollapseBlankFrom(t, i + 1, Append(out, t[i]))

CollapseBlankLines(t) == CollapseBlankFrom(t, 1, << >>)

\* a variant of the last substitution that leaves the text as it is
KeepSpaces(t) == t

\* line 66: re.sub(r'[ \t]+', ' ', text)
RECURSIVE CollapseSpacesFrom(_, _, _)
CollapseSpacesFrom(t, i, out) ==
    IF i > Len(t) THEN out
    ELSE IF t[i] \in { " ", "\t" }
         THEN CollapseSpacesFrom(t, RunEnd(t, i, { " ", "\t" }), Append(out, " "))
         ELSE CollapseSpacesFrom(t, i + 1, Append(out, t[i]))

CollapseSpaces(t) == CollapseSpacesFrom(t, 1, << >>)

\* lines 52-68: the final pass
FinalPass(t) ==
    Strip(CollapseSpaces(CollapseBlankLines(
        JoinLines(CleanLines(SplitLines(t), 1, << >>)))))

\* clean_with_regex, with the passes that can act on WikiTexts
clean_with_regex(t) ==
    FinalPass(UnwrapHeaders(MarkHeaders(remove_nested_templates(t))))

NormalizerInit ==
    /\ IndexerAtRest
    /\ StoreAtRest
    /\ ScraperAtRest
    /\ FilesAtRest
    /\ ChunkerAtRest
    /\ cpc = "raw"
    /\ text \in WikiTexts
    /\ cleaned = << >>

\* the final pass alone, on text
ApplyFinalPass ==
    /\ cpc = "raw"
    /\ cleaned' = FinalPass(text)
    /\ cpc' = "final"
    /\ UNCHANGED text
    /\ UNCHANGED << vars, svars, fvars, kvars, tvars >>

\* cleaned = clean_with_regex(original), line 120
CleanWithRegex ==
    /\ cpc = "raw"
    /\ cleaned' = clean_with_regex(text)
    /\ cpc' = "clean"
    /\ UNCHANGED text
    /\ UNCHANGED << vars, svars, fvars, kvars, tvars >>

\* clean_with_regex called on its own result
CleanAgain ==
    /\ cpc = "clean"
    /\ text' = cleaned
    /\ cleaned' = clean_with_regex(cleaned)
    /\ cpc' = "clean2"
    /\ UNCHANGED << vars, svars, fvars, kvars, tvars >>

NormalizerNext ==
    \/ ApplyFinalPass
    \/ CleanWithRegex
    \/ CleanAgain

\* clean_with_regex and its final pass applied to every text of the
\* bounded set
NormalizerSpec == NormalizerInit /\ [][NormalizerNext]_cvars

\* ------------------------------------------------- process_all_files
\* Files are 1 .. k.  A file of output_dir is "complete" when it holds a
\* whole record and "truncated" when it was opened for writing and the dump
\* did not finish.
FilesInit ==
    /\ IndexerAtRest
    /\ StoreAtRest
    /\ ScraperAtRest
    /\ CleanerAtRest
    /\ ChunkerAtRest
    /\ fpc = "idle"
    /\ input_files \in { 1 .. k : k \in 1 .. MaxFiles }
    /\ output_files = [f \in input_files |-> "absent"]
    /\ job = [f \in input_files |-> "none"]
    /\ cleanruns = 0

\* lines 146-147: the input files with no file of the same name in output_dir
files_to_process == { f \in input_files : output_files[f] = "absent" }

\* process_all_files, lines 135-166: the files to process are submitted to
\* the pool; the others are taken as already processed.
StartCleaning ==
    /\ fpc = "idle"
    /\ cleanruns < MaxCleanRuns
    /\ cleanruns' = cleanruns + 1
    /\ job' = [f \in input_files |->
                 IF f \in files_to_process THEN "queued" ELSE "skipped"]
    /\ fpc' = "running"
    /\ UNCHANGED << input_files, output_files >>
    /\ UNCHANGED << vars, svars, cvars, kvars, tvars >>

\* process_one_file, lines 113-117 and 132-133: the input cannot be read or
\* has no 'wikitext'; (False, message) is returned and no file is written.
ReadFails(f) ==
    /\ fpc = "running"
    /\ f \in input_files
    /\ job[f] = "queued"
    /\ job' = [job EXCEPT ![f] = "failed"]
    /\ UNCHANGED << fpc, input_files, output_files, cleanruns >>
    /\ UNCHANGED << vars, svars, cvars, kvars, tvars >>

\* process_one_file, lines 113-127: the input is read and cleaned, and
\* open(output_path, 'w') creates the output file empty.
OpenOutput(f) ==
    /\ fpc = "running"
    /\ f \in input_files
    /\ job[f] = "queued"
    /\ output_files' = [output_files EXCEPT ![f] = "truncated"]
    /\ job' = [job EXCEPT ![f] = "open"]
    /\ UNCHANGED << fpc, input_files, cleanruns >>
    /\ UNCHANGED << vars, svars, cvars, kvars, tvars >>

\* lines 128-130: json.dump writes the record, the file is closed, and
\* (True, None) is returned.
DumpOk(f) ==
    /\ fpc = "running"
    /\ f \in input_files
    /\ job[f] = "open"
    /\ output_files' = [output_files EXCEPT ![f] = "complete"]
    /\ job' = [job EXCEPT ![f] = "done"]
    /\ UNCHANGED << fpc, input_files, cleanruns >>
    /\ UNCHANGED << vars, svars, cvars, kvars, tvars >>

\* lines 128 and 132-133: json.dump raises part of the way (an I/O error,
\* a character the encoding rejects); the file is closed with what was
\* written and (False, message) is returned.
DumpFails(f) ==
    /\ fpc = "running"
    /\ f \in input_files
    /\ job[f] = "open"
    /\ job' = [job EXCEPT ![f] = "failed"]
    /\ UNCHANGED << fpc, input_files, output_files, cleanruns >>
    /\ UNCHANGED << vars, svars, cvars, kvars, tvars >>

\* lines 168-184: every future has completed and the totals are printed.
FinishCleaning ==
    /\ fpc = "running"
    /\ \A f \in input_files : job[f] \in { "skipped", "done", "failed" }
    /\ fpc' = "idle"
    /\ job' = [f \in input_files |-> "none"]
    /\ UNCHANGED << input_files, output_files, cleanruns >>
    /\ UNCHANGED << vars, svars, cvars, kvars, tvars >>

\* The processes are interrupted or killed; the files of output_dir stay as
\* they are.
InterruptCleaning ==
    /\ fpc = "running"
    /\ fpc' = "idle"
    /\ job' = [f \in input_files |-> "none"]
    /\ UNCHANGED << input_files, output_files, cleanruns >>
    /\ UNCHANGED << vars, svars, cvars, kvars, tvars >>

FilesNext ==
    \/ StartCleaning
    \/ \E f \in input_files : ReadFails(f)
    \/ \E f \in input_files : OpenOutput(f)
    \/ \E f \in input_files : DumpOk(f)
    \/ \E f \in input_files : DumpFails(f)
    \/ FinishCleaning
    \/ InterruptCleaning

\* runs of process_all_files over the same directories, with failures and
\* interruptions at any step
FilesSpec == FilesInit /\ [][FilesNext]_fvars

\* ------------------------------------- configuration of chunk_articles.py
Max(a, b) == IF a > b THEN a ELSE b

\* int(CHUNK_SIZE * 0.15): the product rounded towards zero
FifteenPercent(size) == (15 * size) \div 100

\* lines 59-60: the two values read from the environment
ConfigInit ==
    /\ IndexerAtRest
    /\ StoreAtRest
    /\ ScraperAtRest
    /\ CleanerAtRest
    /\ FilesAtRest
    /\ kpc = "env"
    /\ CHUNK_SIZE \in 1 .. MaxChunkSize
    /\ CHUNK_OVERLAP \in 1 .. MaxChunkSize
    /\ variant = "chunk_articles"
    /\ title = << >>
    /\ content = << >>
    /\ raw_text = << >>
    /\ documents = << >>

\* lines 61-64: an overlap not below the size is replaced
ClampOverlap ==
    /\ kpc = "env"
    /\ CHUNK_OVERLAP' = IF CHUNK_OVERLAP >= CHUNK_SIZE
                         THEN Max(1, FifteenPercent(CHUNK_SIZE))
                         ELSE CHUNK_OVERLAP
    /\ kpc' = "config"
    /\ UNCHANGED << CHUNK_SIZE, variant, title, content, raw_text, documents >>
    /\ UNCHANGED << vars, svars, cvars, fvars, tvars >>

ConfigNext == ClampOverlap

\* the configuration loaded from every pair of values of the bounded set
ConfigSpec == ConfigInit /\ [][ConfigNext]_kvars

\* ----------------------------------- process_articles, both indexer scripts
Variants == { "chunk_articles", "chunking_articles" }

\* characters of a title and of a content; the last two spell the escaped
\* newline that chunking_articles.py replaces
TitleTexts == { << >>, << "a" >> }
ContentAlphabet == { "a", " ", "\n", "\\", "n" }
ContentTexts == UNION { [1 .. k -> ContentAlphabet] : k \in 0 .. MaxContentLen }

\* f"Title: {title}"
TitleLine(t) == << "T", "i", "t", "l", "e", ":", " " >> \o t

\* content.replace('\\n', '\n'), chunking_articles.py line 88
RECURSIVE ReplaceEscapedNewlines(_)
ReplaceEscapedNewlines(t) ==
    IF t = << >> THEN t
    ELSE IF Len(t) >= 2 /\ t[1] = "\\" /\ t[2] = "n"
         THEN << "\n" >> \o ReplaceEscapedNewlines(SubSeq(t, 3, Len(t)))
         ELSE << Head(t) >> \o ReplaceEscapedNewlines(Tail(t))

\* "\n\n".join(parts)
RECURSIVE JoinParts(_)
JoinParts(parts) ==
    IF parts = << >> THEN << >>
    ELSE IF Len(parts) = 1 THEN parts[1]
    ELSE parts[1] \o << "\n", "\n" >> \o JoinParts(Tail(parts))

\* chunk_articles.py lines 119-122
RawTextChunk(t, c) ==
    JoinParts(<< TitleLine(t) >>
              \o (IF Strip(c) # << >> THEN << Strip(c) >> ELSE << >>))

\* chunking_articles.py lines 82-91
RawTextChunking(t, c) ==
    JoinParts((IF t # << >> THEN << TitleLine(t) >> ELSE << >>)
              \o (IF c # << >> THEN << Strip(ReplaceEscapedNewlines(c)) >>
                               ELSE << >>))

RawText(v, t, c) ==
    IF v = "chunk_articles" THEN RawTextChunk(t, c) ELSE RawTextChunking(t, c)

\* text_splitter.create_documents on a text shorter than the chunk size: one
\* chunk, the stripped text, or none when that is empty
SplitShortText(t) == IF Strip(t) = << >> THEN << >> ELSE << Strip(t) >>

ArticleInit ==
    /\ IndexerAtRest
    /\ StoreAtRest
    /\ ScraperAtRest
    /\ CleanerAtRest
    /\ FilesAtRest
    /\ kpc = "file"
    /\ CHUNK_SIZE = 1000
    /\ CHUNK_OVERLAP = 150
    /\ variant \in Variants
    /\ title \in TitleTexts
    /\ content \in ContentTexts
    /\ raw_text = << >>
    /\ documents = << >>

\* process_articles on one cleaned-article file, and create_documents on
\* the article when it was extracted (process_article_batch)
ProcessArticle ==
    /\ kpc = "file"
    /\ LET raw == RawText(variant, title, content)
       IN  /\ raw_text' = raw
           /\ documents' = IF Strip(raw) # << >> THEN SplitShortText(raw)
                                                 ELSE << >>
    /\ kpc' = "chunked"
    /\ UNCHANGED << CHUNK_SIZE, CHUNK_OVERLAP, variant, title, content >>
    /\ UNCHANGED << vars, svars, cvars, fvars, tvars >>

ArticleNext == ProcessArticle

\* one article of every title and content of the bounded sets, through
\* either script
ArticleSpec == ArticleInit /\ [][ArticleNext]_kvars

\* ------------------------------------------- the raw-article store
\* Titles are texts over a letter and two characters that a title may hold
\* and a file name may not.
TitleAlphabet == { "a", "/", ":" }
PageTitles == UNION { [1 .. k -> TitleAlphabet] : k \in 1 .. MaxTitleLen }

\* the characters of the class [<>:"/\\|?*] of line 25
UnsafeChars == { "<", ">", ":", "\"", "/", "\\", "|", "?", "*" }

\* re.sub(r'[<>:"/\\|?*]', '_', title), line 25
ReplaceUnsafe(t) == [i \in 1 .. Len(t) |-> IF t[i] \in UnsafeChars THEN "_" ELSE t[i]]

\* get_safe_filename, lines 24-26
get_safe_filename(t) ==
    Strip(ReplaceUnsafe(t)) \o << ".", "j", "s", "o", "n" >>

\* sequences of at most MaxPages distinct titles
TitleLists ==
    { q \in UNION { [1 .. k -> PageTitles] : k \in 0 .. MaxPages } :
        \A i, j \in 1 .. Len(q) : q[i] = q[j] => i = j }

StoreInit ==
    /\ IndexerAtRest
    /\ ScraperAtRest
    /\ CleanerAtRest
    /\ FilesAtRest
    /\ ChunkerAtRest
    /\ tpc = "start"
    /\ site_titles \in TitleLists
    /\ files = {}
    /\ fetch_list = << >>
    /\ ever_saved = {}
    /\ skipped = {}
    /\ storeruns = 0

\* os.listdir(SAVE_DIR)
existing_files == { r.name : r \in files }

\* lines 159-162: the titles whose file name is not in the directory
RECURSIVE PagesToFetch(_, _)
PagesToFetch(q, existing) ==
    IF q = << >> THEN << >>
    ELSE IF get_safe_filename(Head(q)) \notin existing
         THEN << Head(q) >> \o PagesToFetch(Tail(q), existing)
         ELSE PagesToFetch(Tail(q), existing)

\* main, lines 150-168: the list of titles is in hand and pages_to_fetch is
\* built; with nothing to fetch the script ends.
BuildStoreFetchList ==
    /\ tpc \in { "start", "ended" }
    /\ storeruns < MaxStoreRuns
    /\ storeruns' = storeruns + 1
    /\ fetch_list' = PagesToFetch(site_titles, existing_files)
    /\ skipped' = Range(site_titles) \ Range(fetch_list')
    /\ tpc' = IF fetch_list' = << >> THEN "ended" ELSE "fetch"
    /\ UNCHANGED << site_titles, files, ever_saved >>
    /\ UNCHANGED << vars, svars, cvars, fvars, kvars >>

\* the step that follows the last title of the list
AfterTitle == IF Len(fetch_list) = 1 THEN "ended" ELSE "fetch"

\* save_article, lines 28-32: open(path, "w") replaces whatever file has
\* that name and json.dump writes the record of the title.
SaveArticle ==
    /\ tpc = "fetch"
    /\ LET t == Head(fetch_list)
           name == get_safe_filename(t)
       IN  /\ files' = { r \in files : r.name # name }
                          \cup { [name |-> name, title |-> t] }
           /\ ever_saved' = ever_saved \cup { t }
    /\ fetch_list' = Tail(fetch_list)
    /\ tpc' = AfterTitle
    /\ UNCHANGED << site_titles, skipped, storeruns >>
    /\ UNCHANGED << vars, svars, cvars, fvars, kvars >>

\* the title is not among the wikitexts returned (its batch was given up or
\* the page has no content): nothing is saved for it.
TitleNotReturned ==
    /\ tpc = "fetch"
    /\ fetch_list' = Tail(fetch_list)
    /\ tpc' = AfterTitle
    /\ UNCHANGED << site_titles, files, ever_saved, skipped, storeruns >>
    /\ UNCHANGED << vars, svars, cvars, fvars, kvars >>

StoreNext ==
    \/ BuildStoreFetchList
    \/ SaveArticle
    \/ TitleNotReturned

\* runs of main over the same directory, for every list of titles of the
\* bounded set
StoreSpec == StoreInit /\ [][StoreNext]_tvars

\* ------------------------------------------------------------ properties
TypeOK ==
    /\ n \in 0..MaxArticles
    /\ bad \subseteq 1..n
    /\ run \in 0..MaxRuns
    /\ pc \in Running \cup { "idle", "done", "crashed", "aborted" }
    /\ ckpt.file \in { "absent", "truncated", "complete" }
    /\ attempt \in 0 .. (RETRY_ADD_DOCS + 1)
    /\ \A b \in Batches : future[b].st \in { "queued", "finished", "consumed" }

BatchOf(b) == ArticleBatch(articles, BATCH_SIZE, b)

\* the run has just been launched: nothing was consumed yet
JustLaunched == pc = "loop" /\ \A b \in Batches : future[b].st = "queued"

\* the articles the resume slicing left out
Skipped == Range(Discovered(n)) \ Range(articles)

\* C1: a resumed run skips exactly the articles whose batches were written
\* to the index before it (none re-processed, none skipped unwritten).  It is
\* stated for checkpoints with processed_count < n, the case the slicing of
\* line 152 handles.
ResumeSkipsExactlyCommitted ==
    (JustLaunched /\ RESUME_MODE /\ start_index < n) => Skipped = committed

\* C2: resumed with processed_count = k <= n, the run submits exactly the
\* last n - k articles of the sorted list (none when k = n).
ResumeSubmitsRemaining ==
    (pc \in Running /\ RESUME_MODE /\ start_index <= n)
        => articles = SubSeq(Discovered(n), start_index + 1, n)

\* C3: processed_count, in memory and in the checkpoint file, never exceeds
\* the number of discovered articles.
ProcessedCountBounded ==
    /\ processed_count <= n
    /\ ckpt.processed_count <= n

\* C4: once a batch's write has failed on every attempt, each of its
\* articles is in the failed list and in the manifest, and in the final
\* checkpoint when the run is done.
ExhaustedBatchRecorded ==
    \A b \in exhausted : \A a \in Range(BatchOf(b)) :
        /\ pc \in { "loop", "final_save", "done" }
              => (a \in Range(failed_articles) /\ a \in Range(manifest))
        /\ pc = "done" => a \in Range(ckpt.failed_articles)

\* C5: after an interruption the checkpoint on disk counts exactly the
\* articles of the batches written to the index.
CheckpointCountsWrittenBatches ==
    (pc = "crashed" /\ ckpt.file # "truncated")
        => ckpt.processed_count = Cardinality(committed)

\* C6: an interruption never leaves a checkpoint file that is no complete
\* record, and load_progress never fails on it.
CheckpointAlwaysWellFormed ==
    /\ pc = "crashed" => ckpt.file # "truncated"
    /\ pc # "aborted"

\* the loop body has run to its end for batch b
BatchDone(b) == pc = "loop" /\ b \in Batches /\ future[b].st = "consumed"

HasRaise(b) == \E a \in Range(BatchOf(b)) : a \in bad

\* the chunks of every article of b that did not raise are in the index, the
\* failed list gained one entry for each article that raised and none for
\* the others, and the manifest shows the same
Isolated(b) ==
    \A a \in Range(BatchOf(b)) :
        /\ a \notin bad => \A j \in 1..ChunksOf(a) : << run, a, j >> \in index
        /\ Occ(failed_articles, a)
              = Occ(failed_at_start, a) + (IF a \in bad THEN 1 ELSE 0)
        /\ Occ(manifest, a) = Occ(failed_articles, a)

RunReachesFinish ==
    (pc = "loop") ~> (pc = "done" /\ \A b \in Batches : future[b].st = "consumed")

\* a run finished although an article raised and a batch's write failed
RunReachesFinishWitness ==
    pc = "done" /\ exhausted # {} /\ failed_articles # << >>

\* C9: between batches, fewer than PROGRESS_EVERY batches were written since
\* the last persisted checkpoint.
CheckpointEveryN == pc = "loop" => sinceCkpt < PROGRESS_EVERY

\* C10: when the run is done the checkpoint holds the final counters and
\* failed list, and the manifest holds one line per entry of the failed list.
FinalFilesComplete ==
    pc = "done"
        => /\ ckpt = ProgressRecord(processed_count, total_chunks, failed_articles)
           /\ manifest = failed_articles

\* ------------------------------------------------- C11: who writes what
\* a pool thread has finished a batch in this step
WorkerStep ==
    \E b \in DOMAIN future :
        /\ b \in DOMAIN future'
        /\ future[b].st = "queued"
        /\ future'[b].st = "finished"

\* the progress state and the files the coordinator owns
Shared == << processed_count, total_chunks, failed_articles, ckpt, manifest,
             index, lock >>

\* save_progress has opened the checkpoint file and not yet dumped into it
SaveRunning == pc \in Running /\ ckpt.file = "truncated"

\* C11 as stated: every checkpoint write is made with the lock held.
AllCheckpointWritesUnderLock == SaveRunning => lock = "held"

\* a step of a worker leaves the shared state alone; within a run the
\* counters and the failed list change only where the coordinator takes the
\* lock, and the index only at the coordinator's add_documents call, which
\* never runs while a save_progress is running
WritesAreTheCoordinators ==
    /\ WorkerStep => UNCHANGED Shared
    /\ (pc \in Running /\ pc' \in Running) =>
          /\ << processed_count, total_chunks >>' # << processed_count, total_chunks >>
                => pc = "update"
          /\ failed_articles' # failed_articles => pc = "merge"
          /\ index' # index => (pc = "add" /\ ~SaveRunning)
          /\ ckpt' # ckpt => (pc \in { "update", "save", "final_save" }
                                \/ (pc = "loop" /\ pc' = "final_save"))

\* one save_progress at a time: a save is running only at the coordinator's
\* two save positions, under the lock inside the loop, and after every
\* future was consumed (no worker is left) for the final one
OneSaveAtATime ==
    /\ SaveRunning => pc \in { "save", "final_save" }
    /\ pc = "save" => lock = "held"
    /\ lock = "held" => pc = "save"
    /\ pc = "final_save" => \A b \in Batches : future[b].st = "consumed"

\* C11 amended: workers never write the counters, the failed list, the
\* checkpoint or the index; the coordinator alone does, one write at a time,
\* the saves of the loop under the lock and the final save after the pool
\* has finished, so no two save_progress executions and no two
\* add_documents calls overlap.
CoordinatorSerializesWrites == []OneSaveAtATime /\ [][WritesAreTheCoordinators]_vars

\* a save_progress is running under the lock while one worker has finished
\* another batch and a third batch is still with the pool
CoordinatorSerializesWitness ==
    /\ pc = "save" /\ lock = "held"
    /\ \E b, c \in Batches : future[b].st = "finished" /\ future[c].st = "queued"

\* ------------------------------------------ C12: the index at start-up
\* C12: the index loses entries only at the launch of a non-resuming run; a
\* resuming run keeps every entry there was at its start and only adds; a
\* non-resuming run starts from the zero progress state whatever checkpoint
\* file is on disk.
IndexDeletedOnlyByFreshRun ==
    /\ [][~(index \subseteq index') => (run' = run + 1 /\ ~RESUME_MODE')]_vars
    /\ []((JustLaunched /\ ~RESUME_MODE)
             => (start_index = 0 /\ processed_count = 0 /\ total_chunks = 0
                 /\ failed_articles = << >> /\ articles = Discovered(n)))

\* a non-resuming run was launched over a checkpoint of a finished run that
\* counts articles, and over an index that held chunks of that run
IndexDeletedOnlyByFreshRunWitness ==
    /\ JustLaunched /\ ~RESUME_MODE /\ run = 2
    /\ ckpt.file = "complete" /\ ckpt.processed_count > 0
    /\ committed = {} /\ index = {}

\* a resuming run has added chunks to an index that held chunks at its start
IndexAppendOnlyWitness ==
    /\ RESUME_MODE /\ run = 2 /\ pc = "done"
    /\ \E x \in index : x[1] = 1
    /\ \E x \in index : x[1] = 2

\* =================================================== scraper properties
\* the starts of the batches of main's loop
BatchStarts == { i \in 0 .. (Len(pages_to_fetch) - 1) : i % WIKI_BATCH_SIZE = 0 }

BatchAt(i) == SubSeq(pages_to_fetch, i + 1,
                     Min(i + WIKI_BATCH_SIZE, Len(pages_to_fetch)))

\* get_wikitexts_batch_with_retry has returned for the batch in hand
Returned == spc = "save"

\* C13: whatever the Content Source answers, at most MAX_RETRIES requests
\* are made for one batch; when the first two answers are rate-limited and
\* the third is a success, three requests are made and the pages of the
\* third answer are returned.
RequestsPerBatchBounded ==
    /\ Len(resps) <= MAX_RETRIES
    /\ (Returned /\ Len(resps) >= 3 /\ resps[1] = "retryable"
          /\ resps[2] = "retryable" /\ resps[3] = "ok")
        => (Len(resps) = 3 /\ results = FetchBatch
            /\ batch_start \notin abandoned)

\* two rate-limited answers, then a success
RequestsPerBatchWitness ==
    /\ Returned
    /\ resps = << "retryable", "retryable", "ok" >>
    /\ results # << >>

\* every round of the loop was used and failed
RetriesExhaustedWitness ==
    Returned /\ Len(resps) = MAX_RETRIES /\ resps[MAX_RETRIES] \in RetryKinds

\* C14: an API error outside the retryable family ends the batch at once
\* with no result and no further request for it; after it, and after a
\* batch that used up its retries, main goes on with the next batch, so at
\* the end of the run every batch was either fetched or given up.
AbandonedBatchDoesNotStopRun ==
    /\ [](/\ (spc = "fetch" => \A k \in 1..Len(resps) : resps[k] # "fatal")
           /\ ((Returned /\ resp.kind # "ok")
                 => (results = << >> /\ batch_start \in abandoned
                     /\ (resp.kind = "fatal" \/ Len(resps) = MAX_RETRIES)))
           /\ (spc = "ended"
                 => \A i \in BatchStarts :
                        i \in abandoned \/ Range(BatchAt(i)) \subseteq saved))
    /\ [][Returned
             => IF batch_start + WIKI_BATCH_SIZE < Len(pages_to_fetch)
                THEN /\ spc' = "fetch"
                     /\ batch_start' = batch_start + WIKI_BATCH_SIZE
                     /\ resps' = << >>
                ELSE spc' = "ended"]_svars

\* the run ended after a first batch given up on a fatal error and a later
\* batch fetched and saved
AbandonedBatchWitness ==
    /\ spc = "ended"
    /\ 0 \in abandoned
    /\ \E i \in BatchStarts : i > 0 /\ i \notin abandoned
                                /\ Range(BatchAt(i)) \subseteq saved
    /\ resp.kind = "ok"

\* C15 as stated: before a retry the script waits the Retry-After interval
\* when the response has one, and BASE_WAIT * 2^(attempt - 1) otherwise
\* (attempt counted from 1).
RetryWaitAsStated ==
    (spc = "fetch" /\ resps # << >>)
        => wait = Seconds(IF resp.retry_after # -1 THEN resp.retry_after
                          ELSE BASE_WAIT * 2 ^ (Len(resps) - 1))

\* C16: a positive time is slept between any two successive requests.
PositiveDelayBetweenRequests == gap # 0

\* the titles 1..k of the wiki in its order
Titles(k) == [i \in 1..k |-> i]

\* get_all_pages_list has returned
Listed == spc # "enum"

NoRepeat(q) == \A i, j \in 1 .. Len(q) : q[i] = q[j] => i = j

\* C30: a failed enumeration request (error response or exception) is
\* followed by a request with the same token and leaves the list as it was,
\* so the list never holds a title twice nor skips one, and a list returned
\* after the page without a token holds every title of the wiki exactly once.
FailedRequestRetriedWithSameToken ==
    /\ [](/\ NoRepeat(all_pages)
           /\ (\A i \in 1 .. Len(all_pages) : all_pages[i] = i)
           /\ ((Listed /\ enum_last = "last") =>
                  (/\ Len(all_pages) = wiki_titles
                   /\ Range(all_pages) = 1 .. wiki_titles)))
    /\ [][(spc = "enum" /\ resp'.kind \in { "error", "exception" }) =>
             (/\ spc' = "enum"
              /\ apcontinue' = apcontinue
              /\ all_pages' = all_pages)
          ]_svars

\* the whole list was returned although the request before the last page
\* raised an exception
FailedRequestRetriedWitness ==
    /\ spc = "listed" /\ enum_last = "last"
    /\ wiki_titles > LIMIT /\ Len(all_pages) = wiki_titles
    /\ gap = Seconds(2)

\* C18: when no enumeration request is ever answered with a readable page,
\* the run ends.
EnumFailureEndsRun == <>(spc = "ended" \/ enum_last # "none")

\* =================================================== cleaner properties
\* the text holds '{{' / '}}' somewhere
HasOpen(t) == \E i \in 1..Len(t) : OpenAt(t, i)
HasClose(t) == \E i \in 1..Len(t) : CloseAt(t, i)

\* reading the text from the left, taking '{{' and '}}' as markers wherever
\* they start: no '}}' comes without an open '{{' before it, and none stays
\* open at the end
RECURSIVE BalancedFrom(_, _, _)
BalancedFrom(t, i, depth) ==
    IF i > Len(t) THEN depth = 0
    ELSE IF OpenAt(t, i) THEN BalancedFrom(t, i + 2, depth + 1)
    ELSE IF CloseAt(t, i) THEN depth > 0 /\ BalancedFrom(t, i + 2, depth - 1)
    ELSE BalancedFrom(t, i + 1, depth)

Balanced(t) == BalancedFrom(t, 1, 0)

\* in the same reading no '}' stands alone, outside a '}}' marker
RECURSIVE NoSingleCloseFrom(_, _)
NoSingleCloseFrom(t, i) ==
    IF i > Len(t) THEN TRUE
    ELSE IF OpenAt(t, i) \/ CloseAt(t, i) THEN NoSingleCloseFrom(t, i + 2)
    ELSE t[i] # "}" /\ NoSingleCloseFrom(t, i + 1)

\* C19 as stated: the output for a balanced input holds neither marker.
BalancedInputLosesAllMarkers ==
    (cpc = "out" /\ Balanced(text)) => (~HasOpen(cleaned) /\ ~HasClose(cleaned))

\* C19 amended: the output for a balanced input holds no '{{', and no '}}'
\* either when no '}' of the input stands outside a '}}' marker.
BalancedInputLosesTemplates ==
    (cpc = "out" /\ Balanced(text))
        => /\ ~HasOpen(cleaned)
           /\ NoSingleCloseFrom(text, 1) => ~HasClose(cleaned)

\* a template with a template nested in it, between two characters of text
BalancedInputWitness ==
    /\ cpc = "out"
    /\ text = << "a", "{", "{", "{", "{", "}", "}", "}", "}", "a" >>
    /\ Balanced(text)
    /\ cleaned = << "a", "a" >>

\* the position after the '}}' that closes the template opened before j
\* (0: there is none)
RECURSIVE CloseOf(_, _, _)
CloseOf(t, j, depth) ==
    IF depth = 0 THEN j
    ELSE IF j >= Len(t) THEN 0
    ELSE IF OpenAt(t, j) THEN CloseOf(t, j + 2, depth + 1)
    ELSE IF CloseAt(t, j) THEN CloseOf(t, j + 2, depth - 1)
    ELSE CloseOf(t, j + 1, depth)

\* the text outside templates that precedes the first '{{' without a
\* closing '}}'
RECURSIVE TextBeforeUnmatched(_, _, _)
TextBeforeUnmatched(t, i, out) ==
    IF i > Len(t) THEN out
    ELSE IF OpenAt(t, i)
         THEN IF CloseOf(t, i + 2, 1) = 0 THEN out
              ELSE TextBeforeUnmatched(t, CloseOf(t, i + 2, 1), out)
         ELSE TextBeforeUnmatched(t, i + 1, Append(out, t[i]))

\* C20: for an input that ends with a '{{' (which nothing can close) the
\* output is the text outside templates before the first unmatched '{{',
\* and nothing of what follows it.
UnmatchedOpenDropsRest ==
    (cpc = "out" /\ Len(text) >= 2 /\ OpenAt(text, Len(text) - 1))
        => cleaned = TextBeforeUnmatched(text, 1, << >>)

\* ---- the normalizer

\* the text holds a stretch of k or more consecutive blank lines
BlankLine(line) == AllIn(line, 1, Len(line) + 1, { " ", "\t" })

HasBlankRun(t, k) ==
    LET lines == SplitLines(t)
    IN  \E i \in 1 .. (Len(lines) - k + 1) :
            \A j \in i .. (i + k - 1) : BlankLine(lines[j])

\* the text holds two horizontal whitespace characters side by side
HasSpaceRun(t) ==
    \E i \in 1 .. (Len(t) - 1) :
        t[i] \in { " ", "\t" } /\ t[i + 1] \in { " ", "\t" }

CleanIsIdempotent ==
    cpc = "clean2" => cleaned = text

\* a header line: k '=' signs, the word of w letters, k '=' signs, with a
\* space on each side of the word when sp holds
HeaderLine(k, sp, w) ==
    [ i \in 1 .. k |-> "=" ]
        \o (IF sp THEN << " " >> ELSE << >>)
        \o [ i \in 1 .. w |-> "a" ]
        \o (IF sp THEN << " " >> ELSE << >>)
        \o [ i \in 1 .. k |-> "=" ]

\* C23: a header line is normalized to exactly its inner text.
HeaderBecomesInnerText ==
    \A k \in 1 .. MaxWikiLen, w \in 1 .. MaxWikiLen, sp \in BOOLEAN :
        (cpc = "clean" /\ text = HeaderLine(k, sp, w)) =>
            cleaned = [ i \in 1 .. w |-> "a" ]

\* ---- the commit loop of the indexer

\* the documents of the batch in hand, as the index holds them
BatchChunks == { << run, batch_documents[i][1], batch_documents[i][2] >> :
                   i \in 1 .. Len(batch_documents) }

\* before attempt 1 nothing was slept; before attempt a + 1 the sleep was
\* 2 ^ (a - 1) seconds
AddAttemptsBounded ==
    pc = "add" =>
        /\ attempt \in 1 .. (RETRY_ADD_DOCS + 1)
        /\ backoff = IF attempt = 1 THEN 0 ELSE 2 ^ (attempt - 2)

WholeBatchWritten ==
    pc = "update" => BatchChunks \subseteq index

RetryStep ==
    /\ (pc = "add" /\ index' # index) => pc' = "update"
    /\ (pc = "add" /\ pc' = "add") =>
          /\ attempt' \in { attempt, attempt + 1 }
          /\ batch_documents' = batch_documents
          /\ index' = index
    /\ (pc \in Running /\ pc' \in Running
          /\ (processed_count' # processed_count \/ total_chunks' # total_chunks)) =>
          /\ pc = "update"
          /\ BatchChunks \subseteq index

\* C27: add_documents is called at most RETRY_ADD_DOCS + 1 times for a
\* batch, each time with the whole batch; the sleep before attempt a + 1 is
\* 2 ^ (a - 1) seconds; a successful call is the last one for the batch; and
\* processed_count and total_chunks grow only after a successful call.
RetryWithBackoff ==
    [](AddAttemptsBounded /\ WholeBatchWritten) /\ [][RetryStep]_vars

\* the write succeeded at the last attempt allowed, after sleeps of 1 and 2
\* seconds
RetryWithBackoffWitness ==
    /\ pc = "update"
    /\ attempt = RETRY_ADD_DOCS + 1
    /\ backoff = 2 ^ (RETRY_ADD_DOCS - 1)

\* chunks written to the index by the run in hand
WrittenThisRun == { x \in index : x[1] = run }

\* C28 as stated: at every point of a run total_chunks is the value the run
\* started from plus the number of chunks of the batches written in the run.
TotalChunksAlwaysExact ==
    pc \in Running =>
        total_chunks = chunks_at_start + Cardinality(WrittenThisRun)

\* C28: the same, except between the return of add_documents and the
\* update_progress call that follows it, where total_chunks does not yet
\* count the batch just written.
TotalChunksCountsWrittenBatches ==
    pc \in Running =>
        total_chunks + (IF pc = "update" THEN Len(batch_documents) ELSE 0)
            = chunks_at_start + Cardinality(WrittenThisRun)

\* a resumed run that started from a positive total has written one batch
\* and given up another
TotalChunksWitness ==
    /\ pc = "loop"
    /\ chunks_at_start > 0
    /\ total_chunks > chunks_at_start
    /\ exhausted # {}

\* C29: a checkpoint saved after a batch was counted holds the failure
\* records of that batch.
CheckpointHoldsCountedFailures ==
    (/\ pc = "merge"
     /\ batch_documents # << >>
     /\ sinceCkpt = 0
     /\ ckpt.file = "complete"
     /\ ckpt.processed_count = processed_count) =>
        Range(batch_failed) \subseteq Range(ckpt.failed_articles)

\* ---- the files of the cleaner

\* C24: an output file holds part of a record only while process_one_file
\* is writing it, and a file that a run skips as already processed holds a
\* complete record.
CleanedFileNeverPartial ==
    \A f \in input_files :
        /\ (output_files[f] = "truncated" => job[f] = "open")
        /\ (job[f] = "skipped" => output_files[f] = "complete")

\* ---- configuration and articles without content

\* C25: the overlap in force is positive and below the chunk size.
OverlapBelowChunkSize ==
    kpc = "config" => (CHUNK_OVERLAP > 0 /\ CHUNK_OVERLAP < CHUNK_SIZE)

\* C26: an article whose content is empty or whitespace only gives no chunk.
EmptyContentYieldsNoChunks ==
    (kpc = "chunked" /\ Strip(content) = << >>) => documents = << >>

\* ---- the raw-article store

\* the record save_article writes for title t
RecordOf(t) == [name |-> get_safe_filename(t), title |-> t]

\* C31: the record of a saved title is never replaced by another title's,
\* and a title that the resume check leaves out of pages_to_fetch has its
\* own record in the directory.
StorageKeysCollisionFree ==
    /\ \A t \in ever_saved : RecordOf(t) \in files
    /\ \A t \in skipped : RecordOf(t) \in files

====
